---- MODULE Spec2Model ----
(***************************************************************************)
(* SERP query clustering and action bucketing.                             *)
(*                                                                         *)
(* Clustering (lib/cluster, kept in src/lib/errors.ts lines 87-386) and    *)
(* URL canonicalisation (src/lib/normalize.ts) are pure functions: they    *)
(* are operators here, applied by one action per entry point to inputs     *)
(* drawn from bounded sets.                                                *)
(*                                                                         *)
(* Specifications: Spec (clusterBySerpSimilarity), SpecMalformed (the same *)
(* on top-10 lists with strings that are no URLs), SpecClassify (one       *)
(* determineAction call), SpecBatch (the cluster route: clustering, then   *)
(* generateClusterRecommendations with its promises), SpecSimilarity       *)
(* (computeSemanticSimilarity), SpecDedup (filterNearDuplicates),          *)
(* SpecAggregate (the aggregation functions over a recommendation list),   *)
(* SpecFetch (one fetchSerpResult call with its retries) and               *)
(* SpecFetchBatch (fetchBatchSerpResults).                                 *)
(*                                                                         *)
(* Conventions.  JavaScript arrays are 0-based, TLA+ sequences 1-based:    *)
(* the query at source index i is element i+1 here, so the source's        *)
(* `cluster-${idx + 1}` is "cluster-" followed by the 1-based position.    *)
(* A string that the code assembles or takes apart (a URL, a cluster id)   *)
(* is a sequence of tokens or a record of its parts; a plain string (a     *)
(* query) is a TLA+ string, "" being the empty string, which JavaScript    *)
(* treats as falsy.                                                        *)
(***************************************************************************)
EXTENDS Integers, Sequences, FiniteSets, TLC

VARIABLES
    pc,             \* "start" | "done" (returned) | "error" (threw)
    serpResults,    \* argument: sequence of [q, top10]
    threshold,      \* argument: overlap threshold
    targetQuery,    \* argument: NoTarget when the optional argument is omitted
    overlapMatrix,  \* local of clusterBySerpSimilarity (errors.ts:252)
    components,     \* local of clusterBySerpSimilarity (errors.ts:272-287)
    clusters,       \* return value of clusterBySerpSimilarity
    thrown,         \* name of the error thrown, "" when none
    call,           \* arguments, environment and locals of the one call a specification is about
    result,         \* what that call resolved to or rejected with
    actionPromises, \* generateClusterRecommendations: per cluster, the promise of each query;
                    \* fetchBatchSerpResults: the batchPromises of the batch in flight
    clusterPromises,\* generateClusterRecommendations: the promise of each cluster
    recommendations \* what generateClusterRecommendations has returned to its caller

vars == <<pc, serpResults, threshold, targetQuery, overlapMatrix, components, clusters, thrown,
          call, result, actionPromises, clusterPromises, recommendations>>

(***************************************************************************)
(* Bounds of the model and constants of the program.                       *)
(***************************************************************************)
MaxQueries == 4
TopThresholdTried == 3

MinThreshold == 1
MaxThreshold == 10
SelfOverlap == 10

NoTarget == "<none>"
NoCall == [query |-> "<none>"]
NoResult == [kind |-> "none"]
NotReturned == [delivered |-> FALSE, list |-> <<>>]

Range(s) == {s[k] : k \in 1..Len(s)}

(***************************************************************************)
(* URLs.  A URL string is the sequence of its tokens, in order:            *)
(*   scheme, optional "www.", host, path segments, optional trailing "/",  *)
(*   optional query string, optional fragment.                             *)
(* `new URL(s)` throws unless s starts with a scheme.                      *)
(***************************************************************************)
Scheme == "https://"
Www == "www."
Slash == "/"
HostTokens == {"x.com", "X.COM", "y.com"}
SegmentTokens == {"/a", "/b", "/c"}
QueryTokens == {"?u=1"}
HashTokens == {"#top"}

toLowerCase(tok) == IF tok = "X.COM" THEN "x.com" ELSE tok

urlAlwaysParses(url) == TRUE
urlParses(url) == Len(url) >= 2 /\ url[1] = Scheme

\* parsed.hostname.toLowerCase(): the tokens between the scheme and the path
hostname(url) ==
    LET h == SelectSeq(url, LAMBDA t : t = Www \/ t \in HostTokens)
    IN  [k \in 1..Len(h) |-> toLowerCase(h[k])]

\* parsed.pathname: "/" when the URL has no path
pathname(url) ==
    LET p == SelectSeq(url, LAMBDA t : t = Slash \/ t \in SegmentTokens)
    IN  IF p = <<>> THEN <<Slash>> ELSE p

canonicalizeForSerpComparison(url) ==
    IF ~urlParses(url)
    THEN url
    ELSE LET h0 == hostname(url)
             host == IF h0 # <<>> /\ h0[1] = Www THEN Tail(h0) ELSE h0
             p0 == pathname(url)
             path == IF p0[Len(p0)] = Slash /\ Len(p0) > 1
                     THEN SubSeq(p0, 1, Len(p0) - 1)
                     ELSE p0
         IN  host \o path

(***************************************************************************)
(* Overlap matrix.                                                         *)
(***************************************************************************)
\* new Set(arr1), then one count per element of arr2 found in it
intersectionSize(arr1, arr2) ==
    LET set1 == Range(arr1)
    IN  Cardinality({k \in 1..Len(arr2) : arr2[k] \in set1})

computeSerpOverlap(serp1, serp2) ==
    LET urls1 == [k \in 1..Len(serp1.top10) |-> canonicalizeForSerpComparison(serp1.top10[k])]
        urls2 == [k \in 1..Len(serp2.top10) |-> canonicalizeForSerpComparison(serp2.top10[k])]
    IN  intersectionSize(urls1, urls2)

buildOverlapMatrix(results) ==
    LET n == Len(results)
    IN  [i \in 1..n |-> [j \in 1..n |->
            IF i = j THEN SelfOverlap ELSE computeSerpOverlap(results[i], results[j])]]

(***************************************************************************)
(* Similarity graph: a Map from node to Set of neighbours.  Both keep      *)
(* insertion order, which the traversal below iterates in, so the map is   *)
(* [keys: sequence of nodes in insertion order, adj: node -> sequence of   *)
(* neighbours in insertion order].                                         *)
(***************************************************************************)
graphSetIfAbsent(graph, node) ==
    IF node \in Range(graph.keys) THEN graph
    ELSE [graph EXCEPT !.keys = Append(@, node)]

graphAdd(graph, node, neighbor) ==
    IF neighbor \in Range(graph.adj[node]) THEN graph
    ELSE [graph EXCEPT !.adj[node] = Append(@, neighbor)]

hasEdgeFlipped(overlap, thr) == overlap <= thr

\* errors.ts:142
hasEdge(overlap, thr) == overlap >= thr

RECURSIVE graphInnerLoop(_, _, _, _, _)
graphInnerLoop(graph, matrix, thr, i, j) ==
    IF j > Len(matrix) THEN graph
    ELSE graphInnerLoop(
            IF hasEdge(matrix[i][j], thr)
            THEN graphAdd(graphSetIfAbsent(graphAdd(graph, i, j), j), j, i)
            ELSE graph,
            matrix, thr, i, j + 1)

RECURSIVE graphOuterLoop(_, _, _, _)
graphOuterLoop(graph, matrix, thr, i) ==
    IF i > Len(matrix) THEN graph
    ELSE graphOuterLoop(
            graphInnerLoop(graphSetIfAbsent(graph, i), matrix, thr, i, i + 1),
            matrix, thr, i + 1)

buildSimilarityGraph(matrix, thr) ==
    graphOuterLoop([keys |-> <<>>, adj |-> [i \in 1..Len(matrix) |-> <<>>]], matrix, thr, 1)

(***************************************************************************)
(* Connected components by recursive depth-first search.  The traversal    *)
(* state is [visited: set of nodes, component: sequence of nodes].         *)
(***************************************************************************)
RECURSIVE dfs(_, _, _)
RECURSIVE dfsNeighbors(_, _, _, _)
dfs(graph, node, st) ==
    dfsNeighbors(graph, graph.adj[node], 1,
                 [visited |-> st.visited \cup {node}, component |-> Append(st.component, node)])

dfsNeighbors(graph, neighbors, k, st) ==
    IF k > Len(neighbors) THEN st
    ELSE dfsNeighbors(graph, neighbors, k + 1,
                      IF neighbors[k] \notin st.visited THEN dfs(graph, neighbors[k], st) ELSE st)

RECURSIVE componentsLoop(_, _, _, _)
componentsLoop(graph, k, visited, comps) ==
    IF k > Len(graph.keys) THEN comps
    ELSE LET node == graph.keys[k]
         IN  IF node \in visited
             THEN componentsLoop(graph, k + 1, visited, comps)
             ELSE LET st == dfs(graph, node, [visited |-> visited, component |-> <<>>])
                  IN  componentsLoop(graph, k + 1, st.visited, Append(comps, st.component))

findConnectedComponents(graph) == componentsLoop(graph, 1, {}, <<>>)

\* errors.ts:275-287: nodes in no component become singleton components
RECURSIVE appendUncovered(_, _, _)
appendUncovered(comps, i, n) ==
    IF i > n THEN comps
    ELSE LET coveredNodes == UNION {Range(comps[c]) : c \in 1..Len(comps)}
         IN  appendUncovered(IF i \notin coveredNodes THEN Append(comps, <<i>>) ELSE comps, i + 1, n)

(***************************************************************************)
(* Exemplar selection.  An average is the pair [num, den]; the loop keeps  *)
(* the first member whose average is strictly greater than the best so     *)
(* far, starting from -1.                                                  *)
(***************************************************************************)
avgOverlapOf(idx, componentIndices, matrix) ==
    LET others == {k \in 1..Len(componentIndices) : componentIndices[k] # idx}
        RECURSIVE total(_)
        total(S) == IF S = {} THEN 0
                    ELSE LET k == CHOOSE x \in S : TRUE
                         IN  matrix[idx][componentIndices[k]] + total(S \ {k})
        count == Cardinality(others)
    IN  IF count > 0 THEN [num |-> total(others), den |-> count] ELSE [num |-> 0, den |-> 1]

avgGreater(a, b) == a.num * b.den > b.num * a.den

avgGreaterOrEqual(a, b) == a.num * b.den >= b.num * a.den

\* errors.ts:215
exemplarBeats(avgOverlap, maxAvgOverlap) == avgGreater(avgOverlap, maxAvgOverlap)

RECURSIVE exemplarLoop(_, _, _, _)
exemplarLoop(componentIndices, matrix, k, best) ==
    IF k > Len(componentIndices) THEN best
    ELSE LET idx == componentIndices[k]
             avgOverlap == avgOverlapOf(idx, componentIndices, matrix)
         IN  exemplarLoop(componentIndices, matrix, k + 1,
                          IF exemplarBeats(avgOverlap, best.maxAvgOverlap)
                          THEN [maxAvgOverlap |-> avgOverlap, exemplarIdx |-> idx]
                          ELSE best)

\* errors.ts:196-219: the index the loop ends with
selectExemplarIdx(componentIndices, matrix) ==
    exemplarLoop(componentIndices, matrix, 1,
                 [maxAvgOverlap |-> [num |-> -1, den |-> 1],
                  exemplarIdx |-> IF componentIndices # <<>> THEN componentIndices[1] ELSE 1]).exemplarIdx

\* errors.ts:221: queries[exemplarIdx] || queries[0] || ''
queryOrFallback(queries, exemplarIdx) ==
    IF exemplarIdx \in 1..Len(queries) /\ queries[exemplarIdx] # "" THEN queries[exemplarIdx]
    ELSE IF queries # <<>> /\ queries[1] # "" THEN queries[1]
    ELSE ""

selectExemplar(componentIndices, matrix, queries) ==
    queryOrFallback(queries, selectExemplarIdx(componentIndices, matrix))

(***************************************************************************)
(* clusterBySerpSimilarity.  A cluster id is the record [prefix, n]:       *)
(* "target" is [prefix |-> "target", n |-> 0] and `cluster-${idx + 1}` is  *)
(* [prefix |-> "cluster-", n |-> idx + 1].  findIndex's -1 is 0 here.      *)
(***************************************************************************)
TargetId == [prefix |-> "target", n |-> 0]

clusterIdRenumbered(idx, targetClusterIndex) ==
    IF idx = targetClusterIndex THEN TargetId
    ELSE [prefix |-> "cluster-",
          n |-> IF targetClusterIndex # 0 /\ idx > targetClusterIndex THEN idx - 1 ELSE idx]

\* errors.ts:310
clusterId(idx, targetClusterIndex) ==
    IF idx = targetClusterIndex THEN TargetId ELSE [prefix |-> "cluster-", n |-> idx]

\* errors.ts:293-298
findTargetClusterIndex(comps, queries, target) ==
    IF target # NoTarget /\ target # ""
    THEN LET hits == {c \in 1..Len(comps) : \E k \in 1..Len(comps[c]) : queries[comps[c][k]] = target}
         IN  IF hits = {} THEN 0 ELSE CHOOSE c \in hits : \A d \in hits : c <= d
    ELSE 0

\* errors.ts:300-318: one cluster per component
makeCluster(componentIndices, idx, targetClusterIndex, matrix, queries) ==
    [id |-> clusterId(idx, targetClusterIndex),
     queries |-> SelectSeq([k \in 1..Len(componentIndices) |-> queries[componentIndices[k]]],
                           LAMBDA q : q # ""),
     exemplar |-> selectExemplar(componentIndices, matrix, queries),
     overlapMatrix |-> [a \in 1..Len(componentIndices) |-> [b \in 1..Len(componentIndices) |->
                           matrix[componentIndices[a]][componentIndices[b]]]]]

\* errors.ts:272-287
allComponents(matrix, thr) ==
    appendUncovered(findConnectedComponents(buildSimilarityGraph(matrix, thr)), 1, Len(matrix))

\* errors.ts:227-326.  The result: what is returned or thrown, with the two
\* locals the claims speak about.
clusterBySerpSimilarity(results, thr, target) ==
    IF Len(results) = 0
    THEN [pc |-> "done", thrown |-> "", overlapMatrix |-> <<>>, components |-> <<>>, clusters |-> <<>>]
    ELSE IF thr < MinThreshold \/ thr > MaxThreshold
    THEN [pc |-> "error", thrown |-> "ClusteringError", overlapMatrix |-> <<>>,
          components |-> <<>>, clusters |-> <<>>]
    ELSE LET matrix == buildOverlapMatrix(results)
             comps == allComponents(matrix, thr)
             queries == [i \in 1..Len(results) |-> results[i].q]
             targetClusterIndex == findTargetClusterIndex(comps, queries, target)
         IN  [pc |-> "done", thrown |-> "", overlapMatrix |-> matrix, components |-> comps,
              clusters |-> [idx \in 1..Len(comps) |->
                               makeCluster(comps[idx], idx, targetClusterIndex, matrix, queries)]]

(***************************************************************************)
(* Cluster lookup (errors.ts:331-348).  null is NullId.                    *)
(***************************************************************************)
NullId == [prefix |-> "null", n |-> 0]

getClusterForQuery(query, cls) ==
    LET hits == {c \in 1..Len(cls) : query \in Range(cls[c].queries)}
    IN  IF hits = {} THEN NullId ELSE cls[CHOOSE c \in hits : \A d \in hits : c <= d].id

areInSameCluster(query1, query2, cls) ==
    LET cluster1 == getClusterForQuery(query1, cls)
        cluster2 == getClusterForQuery(query2, cls)
    IN  cluster1 # NullId /\ cluster2 # NullId /\ cluster1 = cluster2

(***************************************************************************)
(* determineAction (bucketing.ts:8-76).  Similarity scores are hundredths. *)
(* The environment of a call says whether generateImprovementSuggestions   *)
(* resolves and what computeSemanticSimilarity (fallback on) resolves to.  *)
(* A call resolves to null, resolves to an action, or rejects.             *)
(***************************************************************************)
SimilarityCutoff == 75
MockSimilarityInTarget == 85
MockSimilarityElsewhere == 60

NoMatch == "<no firstMatch>"

\* queryCluster !== targetQueryCluster, with the ids of clusters that have both
\* queries and, as a variant, the test areInSameCluster makes (null ids differ)
clusterIdsDifferOrMissing(queryCluster, targetQueryCluster) ==
    queryCluster = NullId \/ targetQueryCluster = NullId \/ queryCluster # targetQueryCluster
clusterIdsDiffer(queryCluster, targetQueryCluster) == queryCluster # targetQueryCluster

determineAction(query, serpResult, target, cls, mockMode, env) ==
    IF serpResult.targetPageOnPage1
    THEN [kind |-> "null"]
    ELSE IF serpResult.sameDomainOnPage1 /\ serpResult.firstMatch # NoMatch
    THEN LET otherUrl == serpResult.firstMatch
             queryCluster == getClusterForQuery(query, cls)
             targetQueryCluster == getClusterForQuery(target, cls)
         IN  IF clusterIdsDiffer(queryCluster, targetQueryCluster)
             THEN IF ~mockMode /\ env.suggestions = "rejects"
                  THEN [kind |-> "rejects"]
                  ELSE [kind |-> "action", type |-> "ok_other_page_diff_cluster",
                        q |-> query, otherUrl |-> otherUrl]
             ELSE [kind |-> "action", type |-> "cannibalisation", q |-> query, otherUrl |-> otherUrl]
    ELSE LET queryClusterId == getClusterForQuery(query, cls)
             isInTargetCluster == queryClusterId = TargetId
             similarity == IF mockMode
                           THEN (IF isInTargetCluster THEN MockSimilarityInTarget
                                 ELSE MockSimilarityElsewhere)
                           ELSE env.similarity
         IN  IF similarity >= SimilarityCutoff \/ isInTargetCluster
             THEN [kind |-> "action", type |-> "expand_target_page", q |-> query, otherUrl |-> ""]
             ELSE [kind |-> "action", type |-> "new_page", q |-> query, otherUrl |-> ""]

(***************************************************************************)
(* Inputs.  SERP results are sequences over a pool of results whose top-10 *)
(* lists share URLs pairwise or repeat a canonical URL, and whose queries  *)
(* include the empty string (SerpResultSchema: q is any string); a result  *)
(* may occur more than once in the input, which repeats its query.         *)
(***************************************************************************)
UrlA == <<Scheme, "x.com", "/a">>
UrlA2 == <<Scheme, Www, "X.COM", "/a", Slash, "?u=1">>
UrlB == <<Scheme, "x.com", "/b">>
UrlC == <<Scheme, "y.com", "/c">>

SerpPool ==
    { [q |-> "q1", top10 |-> <<UrlA>>],
      [q |-> "q2", top10 |-> <<UrlB, UrlC>>],
      [q |-> "q3", top10 |-> <<UrlA, UrlB>>],
      [q |-> "q4", top10 |-> <<UrlC>>],
      [q |-> "q5", top10 |-> <<UrlA, UrlA2>>],
      [q |-> "",   top10 |-> <<UrlB>>] }

ThresholdsTried ==
    ((MinThreshold - 1)..TopThresholdTried) \cup {MaxThreshold, MaxThreshold + 1}

\* the route requires a non-empty targetQuery (route.ts:70)
TargetsTried == {NoTarget, "q3"}

Init ==
    /\ pc = "start"
    /\ serpResults \in UNION {[1..n -> SerpPool] : n \in 0..MaxQueries}
    /\ threshold \in ThresholdsTried
    /\ targetQuery \in TargetsTried
    /\ overlapMatrix = <<>>
    /\ components = <<>>
    /\ clusters = <<>>
    /\ thrown = ""
    /\ call = NoCall
    /\ result = NoResult
    /\ actionPromises = <<>>
    /\ clusterPromises = <<>>
    /\ recommendations = NotReturned

ClusterBySerpSimilarity ==
    /\ pc = "start"
    /\ LET r == clusterBySerpSimilarity(serpResults, threshold, targetQuery)
       IN  /\ pc' = r.pc
           /\ thrown' = r.thrown
           /\ overlapMatrix' = r.overlapMatrix
           /\ components' = r.components
           /\ clusters' = r.clusters
    /\ UNCHANGED <<serpResults, threshold, targetQuery, call, result,
                   actionPromises, clusterPromises, recommendations>>

Next == ClusterBySerpSimilarity

Spec == Init /\ [][Next]_vars

(***************************************************************************)
(* Clustering of results whose top-10 lists hold strings that `new URL`    *)
(* rejects: a URL without scheme and a string that is no URL at all.       *)
(***************************************************************************)
UrlBare == <<"x.com", "/b">>
UrlJunk == <<"not a url">>

MalformedPool ==
    { [q |-> "q1", top10 |-> <<UrlBare>>],
      [q |-> "q2", top10 |-> <<UrlA, UrlJunk>>],
      [q |-> "q3", top10 |-> <<UrlJunk, UrlB>>],
      [q |-> "q4", top10 |-> <<UrlC, UrlA2>>] }

MalformedInit ==
    /\ pc = "start"
    /\ serpResults \in UNION {[1..n -> MalformedPool] : n \in 0..MaxQueries}
    /\ threshold \in MinThreshold..(MinThreshold + 1)
    /\ targetQuery \in TargetsTried
    /\ overlapMatrix = <<>>
    /\ components = <<>>
    /\ clusters = <<>>
    /\ thrown = ""
    /\ call = NoCall
    /\ result = NoResult
    /\ actionPromises = <<>>
    /\ clusterPromises = <<>>
    /\ recommendations = NotReturned

MalformedNext == ClusterBySerpSimilarity

SpecMalformed == MalformedInit /\ [][MalformedNext]_vars

(***************************************************************************)
(* One determineAction call.  The cluster lists are of the shapes          *)
(* clusterBySerpSimilarity returns: with the target's cluster named        *)
(* "target" (route.ts:102), without (route.ts:32, no targetQuery passed),  *)
(* with queries that are in no cluster, and empty.                         *)
(***************************************************************************)
ClusterRec(id, queries) == [id |-> id, queries |-> queries]
NumberedId(k) == [prefix |-> "cluster-", n |-> k]

ClusterListsTried ==
    { <<ClusterRec(TargetId, <<"tq", "q1">>), ClusterRec(NumberedId(2), <<"q2">>)>>,
      <<ClusterRec(NumberedId(1), <<"q1">>), ClusterRec(TargetId, <<"tq">>),
        ClusterRec(NumberedId(3), <<"q2">>)>>,
      <<ClusterRec(NumberedId(1), <<"tq", "q1">>), ClusterRec(NumberedId(2), <<"q2">>)>>,
      <<ClusterRec(NumberedId(1), <<"q1">>), ClusterRec(NumberedId(2), <<"q2">>)>>,
      <<>> }

QueriesTried == {"tq", "q1", "q2", "q3"}
FirstMatchesTried == {NoMatch, "https://x.com/other"}
SimilaritiesTried == {0, MockSimilarityElsewhere, SimilarityCutoff - 1, SimilarityCutoff, 100}

ClassifyInit ==
    /\ pc = "start"
    /\ call \in [query : QueriesTried,
                 targetPageOnPage1 : BOOLEAN,
                 sameDomainOnPage1 : BOOLEAN,
                 firstMatch : FirstMatchesTried,
                 targetQuery : {"tq"},
                 clusters : ClusterListsTried,
                 mockMode : BOOLEAN,
                 suggestions : {"resolves", "rejects"},
                 similarity : SimilaritiesTried]
    /\ result = NoResult
    /\ serpResults = <<>>
    /\ threshold = MinThreshold
    /\ targetQuery = NoTarget
    /\ overlapMatrix = <<>>
    /\ components = <<>>
    /\ clusters = <<>>
    /\ thrown = ""
    /\ actionPromises = <<>>
    /\ clusterPromises = <<>>
    /\ recommendations = NotReturned

DetermineAction ==
    /\ pc = "start"
    /\ call # NoCall
    /\ result' = determineAction(call.query,
                                 [targetPageOnPage1 |-> call.targetPageOnPage1,
                                  sameDomainOnPage1 |-> call.sameDomainOnPage1,
                                  firstMatch |-> call.firstMatch],
                                 call.targetQuery, call.clusters, call.mockMode,
                                 [suggestions |-> call.suggestions, similarity |-> call.similarity])
    /\ pc' = "done"
    /\ UNCHANGED <<serpResults, threshold, targetQuery, overlapMatrix, components, clusters,
                   thrown, call, actionPromises, clusterPromises, recommendations>>

ClassifyNext == DetermineAction

SpecClassify == ClassifyInit /\ [][ClassifyNext]_vars

(***************************************************************************)
(* POST /api/cluster (route.ts:81-121): clusterBySerpSimilarity, then      *)
(* generateClusterRecommendations (bucketing.ts:82-128).  Every cluster    *)
(* and every query of a cluster gets a promise; all are created when the   *)
(* function is called and settle in any order, the network deciding.       *)
(* Promise.all fulfils once all its promises are fulfilled and rejects as  *)
(* soon as one is rejected; nothing is cancelled.                          *)
(***************************************************************************)
MaxBatch == 3

Pending == [status |-> "pending", value |-> [kind |-> "null"]]
Fulfilled(v) == [status |-> "fulfilled", value |-> v]
Rejected == [status |-> "rejected", value |-> [kind |-> "null"]]

anyFulfilled(promises) == \E k \in 1..Len(promises) : promises[k].status = "fulfilled"
promiseAllFulfilled(promises) == \A k \in 1..Len(promises) : promises[k].status = "fulfilled"
promiseAllRejected(promises) == \E k \in 1..Len(promises) : promises[k].status = "rejected"

\* serpResults.find(s => s.q === query): the source index + 1, 0 when none
findSerpResult(results, query) ==
    LET hits == {i \in 1..Len(results) : results[i].q = query}
    IN  IF hits = {} THEN 0 ELSE CHOOSE i \in hits : \A j \in hits : i <= j

\* serpResults.filter(s => cluster.queries.includes(s.q)).map(s => s.aiOverview)
aiOverviewPresenceOf(results, cluster) ==
    LET clusterSerpResults == SelectSeq(results, LAMBDA s : s.q \in Range(cluster.queries))
    IN  [k \in 1..Len(clusterSerpResults) |-> clusterSerpResults[k].aiOverview]

\* what the promise of one query settles to (bucketing.ts:97-111)
actionOf(query, results, target, cls, env) ==
    LET i == findSerpResult(results, query)
    IN  IF i # 0
        THEN determineAction(query, results[i], target, cls, env.mockMode,
                             [suggestions |-> IF query \in env.failing THEN "rejects" ELSE "resolves",
                              similarity |-> env.similarity])
        ELSE [kind |-> "null"]

\* as a variant, the actions listed last query first
recommendationReversed(cluster, results, promises) ==
    LET allActions == [k \in 1..Len(promises) |-> promises[Len(promises) + 1 - k].value]
    IN  [clusterId |-> cluster.id,
         exemplar |-> cluster.exemplar,
         queries |-> cluster.queries,
         aiOverviewPresence |-> aiOverviewPresenceOf(results, cluster),
         actions |-> SelectSeq(allActions, LAMBDA a : a.kind # "null")]

\* the ClusterRecommendation of a cluster whose promises are fulfilled
recommendationOf(cluster, results, promises) ==
    LET allActions == [k \in 1..Len(promises) |-> promises[k].value]
    IN  [clusterId |-> cluster.id,
         exemplar |-> cluster.exemplar,
         queries |-> cluster.queries,
         aiOverviewPresence |-> aiOverviewPresenceOf(results, cluster),
         actions |-> SelectSeq(allActions, LAMBDA a : a.kind # "null")]

BatchPool ==
    { [q |-> "q1", top10 |-> <<UrlA>>, aiOverview |-> "present",
       targetPageOnPage1 |-> FALSE, sameDomainOnPage1 |-> TRUE, firstMatch |-> "https://x.com/other"],
      [q |-> "q2", top10 |-> <<UrlB, UrlC>>, aiOverview |-> "absent",
       targetPageOnPage1 |-> FALSE, sameDomainOnPage1 |-> FALSE, firstMatch |-> NoMatch],
      [q |-> "q3", top10 |-> <<UrlA, UrlB>>, aiOverview |-> "unknown",
       targetPageOnPage1 |-> TRUE, sameDomainOnPage1 |-> TRUE, firstMatch |-> "https://x.com/a"],
      [q |-> "q4", top10 |-> <<UrlC>>, aiOverview |-> "present",
       targetPageOnPage1 |-> FALSE, sameDomainOnPage1 |-> TRUE, firstMatch |-> "https://x.com/other2"] }

\* request bodies with pairwise different queries
BatchesTried ==
    {b \in UNION {[1..n -> BatchPool] : n \in 0..MaxBatch} :
        \A i, j \in 1..Len(b) : i # j => b[i].q # b[j].q}

BatchInit ==
    /\ pc = "start"
    /\ serpResults \in BatchesTried
    /\ threshold \in MinThreshold..(MinThreshold + 1)
    /\ targetQuery \in TargetsTried \ {NoTarget}
    /\ call \in [mockMode : BOOLEAN,
                 failing : {{}, {"q1"}, {"q4"}},
                 similarity : {MockSimilarityElsewhere, SimilarityCutoff}]
    /\ result = NoResult
    /\ overlapMatrix = <<>>
    /\ components = <<>>
    /\ clusters = <<>>
    /\ thrown = ""
    /\ actionPromises = <<>>
    /\ clusterPromises = <<>>
    /\ recommendations = NotReturned

\* the call: the promises are created, none is settled yet
GenerateClusterRecommendations ==
    /\ pc = "done"
    /\ pc' = "awaiting"
    /\ actionPromises' = [c \in 1..Len(clusters) |-> [k \in 1..Len(clusters[c].queries) |-> Pending]]
    /\ clusterPromises' = [c \in 1..Len(clusters) |-> Pending]
    /\ UNCHANGED <<serpResults, threshold, targetQuery, overlapMatrix, components, clusters,
                   thrown, call, result, recommendations>>

\* the promise of one query settles
SettleAction(c, k) ==
    /\ pc \in {"awaiting", "resolved", "rejected"}
    /\ actionPromises[c][k].status = "pending"
    /\ LET a == actionOf(clusters[c].queries[k], serpResults, targetQuery, clusters, call)
       IN  actionPromises' =
               [actionPromises EXCEPT ![c][k] = IF a.kind = "rejects" THEN Rejected ELSE Fulfilled(a)]
    /\ UNCHANGED <<pc, serpResults, threshold, targetQuery, overlapMatrix, components, clusters,
                   thrown, call, result, clusterPromises, recommendations>>

\* await Promise.all(actionPromises) returns: the cluster's promise fulfils
FulfilCluster(c) ==
    /\ pc \in {"awaiting", "resolved", "rejected"}
    /\ clusterPromises[c].status = "pending"
    /\ promiseAllFulfilled(actionPromises[c])
    /\ clusterPromises' =
           [clusterPromises EXCEPT ![c] = Fulfilled(recommendationOf(clusters[c], serpResults, actionPromises[c]))]
    /\ UNCHANGED <<pc, serpResults, threshold, targetQuery, overlapMatrix, components, clusters,
                   thrown, call, result, actionPromises, recommendations>>

\* await Promise.all(actionPromises) throws: the cluster's promise rejects
RejectCluster(c) ==
    /\ pc \in {"awaiting", "resolved", "rejected"}
    /\ clusterPromises[c].status = "pending"
    /\ promiseAllRejected(actionPromises[c])
    /\ clusterPromises' = [clusterPromises EXCEPT ![c] = Rejected]
    /\ UNCHANGED <<pc, serpResults, threshold, targetQuery, overlapMatrix, components, clusters,
                   thrown, call, result, actionPromises, recommendations>>

\* the outer Promise.all fulfils: the list is returned to the route
ReturnRecommendations ==
    /\ pc = "awaiting"
    /\ promiseAllFulfilled(clusterPromises)
    /\ pc' = "resolved"
    /\ recommendations' =
           [delivered |-> TRUE, list |-> [c \in 1..Len(clusterPromises) |-> clusterPromises[c].value]]
    /\ UNCHANGED <<serpResults, threshold, targetQuery, overlapMatrix, components, clusters,
                   thrown, call, result, actionPromises, clusterPromises>>

\* the outer Promise.all rejects: the route answers with the error (route.ts:112-120)
RejectRecommendations ==
    /\ pc = "awaiting"
    /\ promiseAllRejected(clusterPromises)
    /\ pc' = "rejected"
    /\ thrown' = "generateImprovementSuggestions failed"
    /\ UNCHANGED <<serpResults, threshold, targetQuery, overlapMatrix, components, clusters,
                   call, result, actionPromises, clusterPromises, recommendations>>

BatchNext ==
    \/ ClusterBySerpSimilarity
    \/ GenerateClusterRecommendations
    \/ \E c \in 1..Len(actionPromises) : \E k \in 1..Len(actionPromises[c]) : SettleAction(c, k)
    \/ \E c \in 1..Len(clusterPromises) : FulfilCluster(c)
    \/ \E c \in 1..Len(clusterPromises) : RejectCluster(c)
    \/ ReturnRecommendations
    \/ RejectRecommendations

SpecBatch == BatchInit /\ [][BatchNext]_vars

(***************************************************************************)
(* computeSemanticSimilarity (openai.ts:97-119) and its fallback, the      *)
(* term-frequency cosine of normalize.ts:115-167.  A text is the sequence  *)
(* of its words and of the separators between them (blanks, punctuation);  *)
(* in the texts tried two words are never adjacent.  A cosine is in        *)
(* hundredths, rounded down.  The network decides whether getEmbedding     *)
(* succeeds for each text, whether the two vectors have the same length    *)
(* and what their cosine is.                                               *)
(***************************************************************************)
Separators == {" ", "-", "/", "://", ".", "!"}

toLowerCaseText(unit) ==
    IF unit = "SEO" THEN "seo" ELSE IF unit = "Tools" THEN "tools" ELSE unit

tokenize(text) ==
    LET words == SelectSeq(text, LAMBDA unit : unit \notin Separators)
    IN  [k \in 1..Len(words) |-> toLowerCaseText(words[k])]

computeFrequency(tokens) ==
    [token \in Range(tokens) |-> Cardinality({k \in 1..Len(tokens) : tokens[k] = token})]

\* freq[token] || 0
frequencyOrZero(freq, token) == IF token \in DOMAIN freq THEN freq[token] ELSE 0

\* for (const token of allTokens) { acc += fa * fb }
RECURSIVE accumulate(_, _, _)
accumulate(allTokens, freqA, freqB) ==
    IF allTokens = {}
    THEN 0
    ELSE LET token == CHOOSE t \in allTokens : TRUE
         IN  frequencyOrZero(freqA, token) * frequencyOrZero(freqB, token)
             + accumulate(allTokens \ {token}, freqA, freqB)

\* dotProduct / (Math.sqrt(mag1) * Math.sqrt(mag2)) in hundredths, rounded down
quotientHundredths(dotProduct, mag1, mag2) ==
    CHOOSE h \in 0..100 :
        /\ h * h * mag1 * mag2 <= 10000 * dotProduct * dotProduct
        /\ h = 100 \/ (h + 1) * (h + 1) * mag1 * mag2 > 10000 * dotProduct * dotProduct

\* the sums cosineSimilarity accumulates; zero says that it returns 0 early
cosineTerms(text1, text2) ==
    LET tokens1 == tokenize(text1)
        tokens2 == tokenize(text2)
        freq1 == computeFrequency(tokens1)
        freq2 == computeFrequency(tokens2)
        allTokens == DOMAIN freq1 \cup DOMAIN freq2
        dotProduct == accumulate(allTokens, freq1, freq2)
        mag1 == accumulate(allTokens, freq1, freq1)
        mag2 == accumulate(allTokens, freq2, freq2)
    IN  [zero |-> tokens1 = <<>> \/ tokens2 = <<>> \/ mag1 = 0 \/ mag2 = 0,
         dotProduct |-> dotProduct, mag1 |-> mag1, mag2 |-> mag2]

cosineSimilarity(text1, text2) ==
    LET t == cosineTerms(text1, text2)
    IN  IF t.zero THEN 0 ELSE quotientHundredths(t.dotProduct, t.mag1, t.mag2)

(***************************************************************************)
(* filterNearDuplicates (normalize.ts:172-193).  The threshold is in       *)
(* hundredths and not negative; `similarity > threshold` is decided on the *)
(* exact quotient, not on its rounded hundredths.                          *)
(***************************************************************************)
MaxCandidates == 3

similarityAtLeast(text1, text2, thr) ==
    LET t == cosineTerms(text1, text2)
    IN  IF t.zero THEN 0 >= thr
        ELSE 10000 * t.dotProduct * t.dotProduct >= thr * thr * t.mag1 * t.mag2

\* cosineSimilarity(query.q, existing.q) > threshold
similarityExceeds(text1, text2, thr) ==
    LET t == cosineTerms(text1, text2)
    IN  IF t.zero THEN 0 > thr
        ELSE 10000 * t.dotProduct * t.dotProduct > thr * thr * t.mag1 * t.mag2

\* as a variant, a candidate judged against the candidate before it only
isDuplicateOfPrevious(queries, i, kept, thr) ==
    i > 1 /\ similarityExceeds(queries[i].q, queries[i - 1].q, thr)

\* the inner loop: is queries[i] too similar to some kept candidate?
isDuplicate(queries, i, kept, thr) ==
    \E k \in 1..Len(kept) : similarityExceeds(queries[i].q, kept[k].q, thr)

RECURSIVE filterLoop(_, _, _, _)
filterLoop(queries, i, kept, thr) ==
    IF i > Len(queries) THEN kept
    ELSE filterLoop(queries, i + 1,
                    IF isDuplicate(queries, i, kept, thr) THEN kept ELSE Append(kept, queries[i]),
                    thr)

filterNearDuplicates(queries, thr) == filterLoop(queries, 1, <<>>, thr)

\* candidates: the queries of the test (normalize.test.ts:116-120), two that
\* share three of four words, chains of pairwise similar texts, and texts
\* without any word
CandidatePool ==
    { [q |-> <<"what", " ", "is", " ", "seo">>, intent |-> "info"],
      [q |-> <<"what", " ", "is", " ", "SEO">>, intent |-> "nav"],
      [q |-> <<"how", " ", "to", " ", "do", " ", "seo">>, intent |-> "info"],
      [q |-> <<"best", " ", "seo", " ", "tools", " ", "guide">>, intent |-> "info"],
      [q |-> <<"top", " ", "seo", " ", "tools", " ", "guide">>, intent |-> "info"],
      [q |-> <<"Tools", "!">>, intent |-> "info"],
      [q |-> <<"!">>, intent |-> "info"],
      [q |-> <<>>, intent |-> "info"] }

\* 0.9 is the default and the value the callers pass (part_004:51)
DedupThresholdsTried == {0, 50, SimilarityCutoff, 90, 100}

DedupInit ==
    /\ pc = "start"
    /\ call \in [queries : UNION {[1..n -> CandidatePool] : n \in 0..MaxCandidates},
                 threshold : DedupThresholdsTried]
    /\ result = NoResult
    /\ serpResults = <<>>
    /\ threshold = MinThreshold
    /\ targetQuery = NoTarget
    /\ overlapMatrix = <<>>
    /\ components = <<>>
    /\ clusters = <<>>
    /\ thrown = ""
    /\ actionPromises = <<>>
    /\ clusterPromises = <<>>
    /\ recommendations = NotReturned

FilterNearDuplicates ==
    /\ pc = "start"
    /\ pc' = "done"
    /\ result' = [kind |-> "filterNearDuplicates",
                  value |-> filterNearDuplicates(call.queries, call.threshold)]
    /\ UNCHANGED <<serpResults, threshold, targetQuery, overlapMatrix, components, clusters,
                   thrown, call, actionPromises, clusterPromises, recommendations>>

DedupNext == FilterNearDuplicates

SpecDedup == DedupInit /\ [][DedupNext]_vars

computeSemanticSimilarityNoFallback(text1, text2, useFallback, network) ==
    IF network.embedding1 = "ok" /\ network.embedding2 = "ok" /\ network.sameLength
    THEN [kind |-> "resolves", value |-> network.vectorCosine]
    ELSE [kind |-> "rejects", value |-> 0]

computeSemanticSimilarity(text1, text2, useFallback, network) ==
    IF network.embedding1 = "ok" /\ network.embedding2 = "ok" /\ network.sameLength
    THEN [kind |-> "resolves", value |-> network.vectorCosine]
    ELSE IF useFallback
    THEN [kind |-> "resolves", value |-> cosineSimilarity(text1, text2)]
    ELSE [kind |-> "rejects", value |-> 0]

TextsTried ==
    { <<"seo", " ", "tools">>,
      <<"SEO", " ", "Tools", "!">>,
      <<"seo", " ", "seo", " ", "audit">>,
      <<"best", " ", "seo", " ", "tools", " ", "guide">>,
      <<"top", " ", "seo", " ", "tools", " ", "guide">>,
      <<"https", "://", "x", ".", "com", "/", "seo", "-", "tools">>,
      <<"!">>,
      <<>> }

SimilarityInit ==
    /\ pc = "start"
    /\ call \in [text1 : TextsTried,
                 text2 : TextsTried,
                 useFallback : BOOLEAN,
                 embedding1 : {"ok", "fails"},
                 embedding2 : {"ok", "fails"},
                 sameLength : BOOLEAN,
                 vectorCosine : SimilaritiesTried]
    /\ result = NoResult
    /\ serpResults = <<>>
    /\ threshold = MinThreshold
    /\ targetQuery = NoTarget
    /\ overlapMatrix = <<>>
    /\ components = <<>>
    /\ clusters = <<>>
    /\ thrown = ""
    /\ actionPromises = <<>>
    /\ clusterPromises = <<>>
    /\ recommendations = NotReturned

ComputeSemanticSimilarity ==
    /\ pc = "start"
    /\ LET r == computeSemanticSimilarity(call.text1, call.text2, call.useFallback,
                                          [embedding1 |-> call.embedding1,
                                           embedding2 |-> call.embedding2,
                                           sameLength |-> call.sameLength,
                                           vectorCosine |-> call.vectorCosine])
       IN  /\ result' = r
           /\ pc' = IF r.kind = "rejects" THEN "error" ELSE "done"
           /\ thrown' = IF r.kind = "rejects" THEN "GeminiAPIError" ELSE ""
    /\ UNCHANGED <<serpResults, threshold, targetQuery, overlapMatrix, components, clusters,
                   call, actionPromises, clusterPromises, recommendations>>

SimilarityNext == ComputeSemanticSimilarity

SpecSimilarity == SimilarityInit /\ [][SimilarityNext]_vars

(***************************************************************************)
(* The aggregation functions over a list of ClusterRecommendation          *)
(* (bucketing.ts:133-285).  A JavaScript number that may be NaN is a       *)
(* record; a percentage is a fraction num/den.                             *)
(***************************************************************************)
MaxRecommendations == 3
MinExpandActions == 3
MinNewPageActions == 2

RECURSIVE Flatten(_)
Flatten(seqs) == IF seqs = <<>> THEN <<>> ELSE Head(seqs) \o Flatten(Tail(seqs))

Num(n) == [nan |-> FALSE, n |-> n]
NaN == [nan |-> TRUE, n |-> 0]

\* summary[action.type]++ : undefined++ stores NaN under a key the summary lacks
increment(summary, type) ==
    IF type \in DOMAIN summary
    THEN [summary EXCEPT ![type] = IF @.nan THEN NaN ELSE Num(@.n + 1)]
    ELSE summary @@ (type :> NaN)

RECURSIVE summarize(_, _)
summarize(actions, summary) ==
    IF actions = <<>> THEN summary
    ELSE summarize(Tail(actions), increment(summary, Head(actions).type))

getActionSummary(recs) ==
    summarize(Flatten([r \in 1..Len(recs) |-> recs[r].actions]),
              [type \in {"ok_other_page_diff_cluster", "cannibalisation",
                         "expand_target_page", "new_page"} |-> Num(0)])

percentageUnguarded(present, total) == [num |-> present * 100, den |-> total]
percentageOf(present, total) ==
    IF total > 0 THEN [num |-> present * 100, den |-> total] ELSE [num |-> 0, den |-> 1]

getAIOverviewStats(recs) ==
    LET entries == Flatten([r \in 1..Len(recs) |-> recs[r].aiOverviewPresence])
        present == Cardinality({k \in 1..Len(entries) : entries[k] = "present"})
        absent == Cardinality({k \in 1..Len(entries) : entries[k] # "present" /\ entries[k] = "absent"})
        unknown == Cardinality({k \in 1..Len(entries) : entries[k] # "present" /\ entries[k] # "absent"})
        total == present + absent + unknown
    IN  [present |-> present, absent |-> absent, unknown |-> unknown,
         percentagePresent |-> percentageOf(present, total)]

\* new Set(...): the distinct elements in the order of their first occurrence
RECURSIVE newSet(_)
newSet(seq) ==
    IF seq = <<>> THEN <<>>
    ELSE LET init == newSet(SubSeq(seq, 1, Len(seq) - 1))
             last == seq[Len(seq)]
         IN  IF last \in Range(init) THEN init ELSE Append(init, last)

issuesOf(rec) ==
    LET cannibalizationActions == SelectSeq(rec.actions, LAMBDA a : a.type = "cannibalisation")
        competingUrls == newSet([k \in 1..Len(cannibalizationActions) |-> cannibalizationActions[k].otherUrl])
        truthy == SelectSeq(competingUrls, LAMBDA url : url # "")
    IN  [u \in 1..Len(truthy) |->
            LET affected == SelectSeq(cannibalizationActions, LAMBDA a : a.otherUrl = truthy[u])
            IN  [clusterId |-> rec.clusterId,
                 queries |-> [k \in 1..Len(affected) |-> affected[k].q],
                 competingUrl |-> truthy[u]]]

identifyCannibalizationIssues(recs) == Flatten([r \in 1..Len(recs) |-> issuesOf(recs[r])])

atLeastOneMore(count, min) == count > min
atLeast(count, min) == count >= min

\* the entry a recommendation contributes for one action type, if any
priorityOf(rec, type, min, priority, action) ==
    LET matching == SelectSeq(rec.actions, LAMBDA a : a.type = type)
    IN  IF atLeast(Len(matching), min)
        THEN << [priority |-> priority, action |-> action,
                 queries |-> [k \in 1..Len(matching) |-> matching[k].q],
                 rationale |-> [clusterId |-> rec.clusterId, competingUrl |-> "", count |-> Len(matching)]] >>
        ELSE <<>>

suggestContentPriorities(recs) ==
    LET cannibalizationIssues == identifyCannibalizationIssues(recs)
        high == [i \in 1..Len(cannibalizationIssues) |->
                    [priority |-> "high", action |-> "Fix cannibalization",
                     queries |-> cannibalizationIssues[i].queries,
                     rationale |-> [clusterId |-> cannibalizationIssues[i].clusterId,
                                    competingUrl |-> cannibalizationIssues[i].competingUrl,
                                    count |-> 0]]]
        medium == Flatten([r \in 1..Len(recs) |->
                      priorityOf(recs[r], "expand_target_page", MinExpandActions, "medium", "Expand target page")])
        low == Flatten([r \in 1..Len(recs) |->
                      priorityOf(recs[r], "new_page", MinNewPageActions, "low", "Create new page")])
    IN  high \o medium \o low

\* an action; otherUrl is "" for the types that have no such field
Act(type, q, otherUrl) == [type |-> type, q |-> q, otherUrl |-> otherUrl]
UrlOther == "https://x.com/other"
UrlOther2 == "https://x.com/other2"

\* the two recommendations of tests/bucketing.test.ts, the first of the
\* development seed, and recommendations at and around the counts that matter
RecommendationPool ==
    { [clusterId |-> NumberedId(1), queries |-> <<"q1", "q2">>,
       aiOverviewPresence |-> <<"present", "absent">>,
       actions |-> <<Act("cannibalisation", "q2", UrlOther)>>],
      [clusterId |-> NumberedId(2), queries |-> <<"q3", "q4", "q5">>,
       aiOverviewPresence |-> <<"absent", "unknown", "present">>,
       actions |-> <<Act("expand_target_page", "q3", ""), Act("expand_target_page", "q4", ""),
                     Act("new_page", "q5", "")>>],
      [clusterId |-> TargetId, queries |-> <<"q1", "q2">>,
       aiOverviewPresence |-> <<"present", "present">>,
       actions |-> <<Act("great_target_page_ranking", "q1", ""),
                     Act("cannibalisation", "q2", UrlOther)>>],
      [clusterId |-> NumberedId(3), queries |-> <<"q1", "q2", "q3">>,
       aiOverviewPresence |-> <<"unknown", "unknown", "absent">>,
       actions |-> <<Act("expand_target_page", "q1", ""), Act("expand_target_page", "q2", ""),
                     Act("expand_target_page", "q3", "")>>],
      [clusterId |-> NumberedId(4), queries |-> <<"q1", "q2", "q3", "q4">>,
       aiOverviewPresence |-> <<"present", "absent", "absent", "unknown">>,
       actions |-> <<Act("new_page", "q1", ""), Act("ok_other_page_diff_cluster", "q2", UrlOther2),
                     Act("new_page", "q3", ""), Act("expand_target_page", "q4", "")>>],
      [clusterId |-> NumberedId(5), queries |-> <<"q1", "q2", "q3">>,
       aiOverviewPresence |-> <<"absent", "absent", "absent">>,
       actions |-> <<Act("cannibalisation", "q1", UrlOther), Act("cannibalisation", "q2", UrlOther2),
                     Act("cannibalisation", "q3", UrlOther)>>],
      [clusterId |-> NumberedId(6), queries |-> <<"q1", "q2">>,
       aiOverviewPresence |-> <<"present", "unknown">>,
       actions |-> <<Act("cannibalisation", "q1", ""), Act("cannibalisation", "q2", UrlOther)>>],
      [clusterId |-> NumberedId(7), queries |-> <<"q1">>,
       aiOverviewPresence |-> <<>>,
       actions |-> <<>>] }

\* lists of recommendations of pairwise different clusters
RecommendationsTried ==
    {l \in UNION {[1..n -> RecommendationPool] : n \in 0..MaxRecommendations} :
        \A i, j \in 1..Len(l) : i # j => l[i].clusterId # l[j].clusterId}

AggregateInit ==
    /\ pc = "start"
    /\ recommendations \in [delivered : {TRUE}, list : RecommendationsTried]
    /\ call = NoCall
    /\ result = NoResult
    /\ serpResults = <<>>
    /\ threshold = MinThreshold
    /\ targetQuery = NoTarget
    /\ overlapMatrix = <<>>
    /\ components = <<>>
    /\ clusters = <<>>
    /\ thrown = ""
    /\ actionPromises = <<>>
    /\ clusterPromises = <<>>

GetActionSummary ==
    /\ pc = "start"
    /\ pc' = "done"
    /\ result' = [kind |-> "getActionSummary", value |-> getActionSummary(recommendations.list)]
    /\ UNCHANGED <<serpResults, threshold, targetQuery, overlapMatrix, components, clusters,
                   thrown, call, actionPromises, clusterPromises, recommendations>>

GetAIOverviewStats ==
    /\ pc = "start"
    /\ pc' = "done"
    /\ result' = [kind |-> "getAIOverviewStats", value |-> getAIOverviewStats(recommendations.list)]
    /\ UNCHANGED <<serpResults, threshold, targetQuery, overlapMatrix, components, clusters,
                   thrown, call, actionPromises, clusterPromises, recommendations>>

IdentifyCannibalizationIssues ==
    /\ pc = "start"
    /\ pc' = "done"
    /\ result' = [kind |-> "identifyCannibalizationIssues", value |-> identifyCannibalizationIssues(recommendations.list)]
    /\ UNCHANGED <<serpResults, threshold, targetQuery, overlapMatrix, components, clusters,
                   thrown, call, actionPromises, clusterPromises, recommendations>>

SuggestContentPriorities ==
    /\ pc = "start"
    /\ pc' = "done"
    /\ result' = [kind |-> "suggestContentPriorities", value |-> suggestContentPriorities(recommendations.list)]
    /\ UNCHANGED <<serpResults, threshold, targetQuery, overlapMatrix, components, clusters,
                   thrown, call, actionPromises, clusterPromises, recommendations>>

AggregateNext ==
    \/ GetActionSummary
    \/ GetAIOverviewStats
    \/ IdentifyCannibalizationIssues
    \/ SuggestContentPriorities

SpecAggregate == AggregateInit /\ [][AggregateNext]_vars

(***************************************************************************)
(* fetchSerpResult (README.md:380-612): one HTTP request per call of the   *)
(* function, which calls itself again after a backoff on 429 and 5xx.      *)
(* `call` holds the query, retryCount, the number of requests issued, the  *)
(* backoffs slept (ms) and the responses received; every request gets a    *)
(* response or fails.  The parsing of a 200 response is reduced to its     *)
(* three outcomes.                                                         *)
(***************************************************************************)
MAX_RETRIES == 4
INITIAL_BACKOFF == 2000

ResponsesTried ==
    {"429", "500", "503", "404", "network error", "200 no tasks", "200 no results", "200 results"}

retriesExhaustedLater(retryCount) == retryCount > MAX_RETRIES
retriesExhausted(retryCount) == retryCount >= MAX_RETRIES

backoffTime(retryCount) == INITIAL_BACKOFF * 2^retryCount

\* what one request with this response leads to
afterResponse(response, retryCount) ==
    IF response = "429"
    THEN (IF retriesExhausted(retryCount)
          THEN [pc |-> "error", thrown |-> "RateLimitError"] ELSE [pc |-> "sleeping", thrown |-> ""])
    ELSE IF response \in {"500", "503"}
    THEN (IF retriesExhausted(retryCount)
          THEN [pc |-> "error", thrown |-> "DataForSEOAPIError"] ELSE [pc |-> "sleeping", thrown |-> ""])
    ELSE IF response \in {"404", "network error", "200 no tasks"}
    THEN [pc |-> "error", thrown |-> "DataForSEOAPIError"]
    ELSE [pc |-> "done", thrown |-> ""]

FetchInit ==
    /\ pc = "fetching"
    /\ call \in [query : {"q1", "q2", "q3"}, retryCount : {0}, requests : {0},
                 backoffs : {<<>>}, responses : {<<>>}]
    /\ result = NoResult
    /\ serpResults = <<>>
    /\ threshold = MinThreshold
    /\ targetQuery = NoTarget
    /\ overlapMatrix = <<>>
    /\ components = <<>>
    /\ clusters = <<>>
    /\ thrown = ""
    /\ actionPromises = <<>>
    /\ clusterPromises = <<>>
    /\ recommendations = NotReturned

\* await fetch(...) and the handling of its response
Request(response) ==
    /\ pc = "fetching"
    /\ LET next == afterResponse(response, call.retryCount)
       IN  /\ pc' = next.pc
           /\ thrown' = next.thrown
           /\ call' = [call EXCEPT !.requests = @ + 1,
                                   !.responses = Append(@, response),
                                   !.backoffs = IF next.pc = "sleeping"
                                                THEN Append(@, backoffTime(call.retryCount)) ELSE @]
           /\ result' = IF next.pc = "done"
                        THEN [kind |-> "serpResult", q |-> call.query,
                              empty |-> response = "200 no results"]
                        ELSE result
    /\ UNCHANGED <<serpResults, threshold, targetQuery, overlapMatrix, components, clusters,
                   actionPromises, clusterPromises, recommendations>>

\* the sleep ends: return fetchSerpResult(params, credentials, retryCount + 1)
Retry ==
    /\ pc = "sleeping"
    /\ pc' = "fetching"
    /\ call' = [call EXCEPT !.retryCount = @ + 1]
    /\ UNCHANGED <<serpResults, threshold, targetQuery, overlapMatrix, components, clusters,
                   thrown, result, actionPromises, clusterPromises, recommendations>>

FetchNext ==
    \/ \E response \in ResponsesTried : Request(response)
    \/ Retry

\* every request is answered or fails, and every timer fires
SpecFetch == FetchInit /\ [][FetchNext]_vars /\ WF_vars(FetchNext)

(***************************************************************************)
(* fetchBatchSerpResults (README.md:615-663).  `call` holds the queries,   *)
(* concurrency, the loop variable i (0-based) and the two lists built;     *)
(* `actionPromises` holds the batchPromises of the batch in flight.  Each  *)
(* fetchSerpResult call returns a result or throws, in any order within    *)
(* its batch.                                                              *)
(***************************************************************************)
MaxFetched == 3
MaxConcurrency == 2

Undefined == "<undefined>"

FetchedQueriesTried == {"q1", "q2", ""}

\* README.md:629-644: what the wrapper of one fetch resolves with
fetched(query) == [success |-> TRUE, query |-> Undefined, result |-> [q |-> query]]
fetchFailed(query) == [success |-> FALSE, query |-> query, result |-> [q |-> Undefined]]

\* README.md:628: queries.slice(i, i + concurrency)
slice(queries, i, j) == SubSeq(queries, i + 1, IF j < Len(queries) THEN j ELSE Len(queries))

\* README.md:649-655: the loop over batchResults
RECURSIVE pushBatchResults(_, _, _)
pushBatchResults(lists, batchResults, k) ==
    IF k > Len(batchResults) THEN lists
    ELSE LET batchResult == batchResults[k]
         IN  pushBatchResults(
                 IF batchResult.success
                 THEN [lists EXCEPT !.results = Append(@, batchResult.result)]
                 ELSE IF batchResult.query # ""
                 THEN [lists EXCEPT !.errors = Append(@, [query |-> batchResult.query])]
                 ELSE lists,
                 batchResults, k + 1)

FetchBatchInit ==
    /\ pc = "loop"
    /\ call \in [queries : UNION {[1..n -> FetchedQueriesTried] : n \in 0..MaxFetched},
                 concurrency : 1..MaxConcurrency, i : {0}, results : {<<>>}, errors : {<<>>},
                 succeeded : {{}}]
    /\ actionPromises = <<>>
    /\ result = NoResult
    /\ serpResults = <<>>
    /\ threshold = MinThreshold
    /\ targetQuery = NoTarget
    /\ overlapMatrix = <<>>
    /\ components = <<>>
    /\ clusters = <<>>
    /\ thrown = ""
    /\ clusterPromises = <<>>
    /\ recommendations = NotReturned

\* the loop test holds: the batch's fetches are started
StartBatch ==
    /\ pc = "loop"
    /\ call.i < Len(call.queries)
    /\ actionPromises' = [k \in 1..Len(slice(call.queries, call.i, call.i + call.concurrency)) |-> Pending]
    /\ pc' = "awaiting"
    /\ UNCHANGED <<serpResults, threshold, targetQuery, overlapMatrix, components, clusters,
                   thrown, call, result, clusterPromises, recommendations>>

\* fetchSerpResult of the batch's k-th query returns
FetchSucceeds(k) ==
    /\ pc = "awaiting"
    /\ k \in 1..Len(actionPromises)
    /\ actionPromises[k] = Pending
    /\ actionPromises' = [actionPromises EXCEPT ![k] = Fulfilled(fetched(call.queries[call.i + k]))]
    /\ call' = [call EXCEPT !.succeeded = @ \cup {call.i + k}]
    /\ UNCHANGED <<pc, serpResults, threshold, targetQuery, overlapMatrix, components, clusters,
                   thrown, result, clusterPromises, recommendations>>

\* fetchSerpResult of the batch's k-th query throws and the wrapper catches
FetchFails(k) ==
    /\ pc = "awaiting"
    /\ k \in 1..Len(actionPromises)
    /\ actionPromises[k] = Pending
    /\ actionPromises' = [actionPromises EXCEPT ![k] = Fulfilled(fetchFailed(call.queries[call.i + k]))]
    /\ UNCHANGED <<pc, serpResults, threshold, targetQuery, overlapMatrix, components, clusters,
                   thrown, call, result, clusterPromises, recommendations>>

\* Promise.all(batchPromises) resolves; the results are pushed; the delay
\* between batches starts when more queries are left
CollectBatch ==
    /\ pc = "awaiting"
    /\ promiseAllFulfilled(actionPromises)
    /\ LET batchResults == [k \in 1..Len(actionPromises) |-> actionPromises[k].value]
           lists == pushBatchResults([results |-> call.results, errors |-> call.errors],
                                     batchResults, 1)
           more == call.i + call.concurrency < Len(call.queries)
       IN  /\ call' = [call EXCEPT !.results = lists.results, !.errors = lists.errors,
                                   !.i = IF more THEN @ ELSE @ + call.concurrency]
           /\ pc' = IF more THEN "sleeping" ELSE "loop"
    /\ actionPromises' = <<>>
    /\ UNCHANGED <<serpResults, threshold, targetQuery, overlapMatrix, components, clusters,
                   thrown, result, clusterPromises, recommendations>>

\* sleep(500) ends: i += concurrency
NextBatch ==
    /\ pc = "sleeping"
    /\ call' = [call EXCEPT !.i = @ + call.concurrency]
    /\ pc' = "loop"
    /\ UNCHANGED <<serpResults, threshold, targetQuery, overlapMatrix, components, clusters,
                   thrown, result, actionPromises, clusterPromises, recommendations>>

\* the loop test fails: return { results, errors }
ReturnBatchResults ==
    /\ pc = "loop"
    /\ call.i >= Len(call.queries)
    /\ result' = [kind |-> "fetchBatchSerpResults", results |-> call.results, errors |-> call.errors]
    /\ pc' = "done"
    /\ UNCHANGED <<serpResults, threshold, targetQuery, overlapMatrix, components, clusters,
                   thrown, call, actionPromises, clusterPromises, recommendations>>

FetchBatchNext ==
    \/ StartBatch
    \/ \E k \in 1..MaxConcurrency : FetchSucceeds(k)
    \/ \E k \in 1..MaxConcurrency : FetchFails(k)
    \/ CollectBatch
    \/ NextBatch
    \/ ReturnBatchResults

SpecFetchBatch == FetchBatchInit /\ [][FetchBatchNext]_vars

(***************************************************************************)
(* Vocabulary of the properties.                                           *)
(***************************************************************************)
NumQueries == Len(serpResults)
InputQueries == [i \in 1..NumQueries |-> serpResults[i].q]
Clustered == pc = "done" /\ serpResults # <<>>

\* the set of distinct canonical URLs of query i's top-10 list
CanonSet(i) == {canonicalizeForSerpComparison(serpResults[i].top10[k]) : k \in 1..Len(serpResults[i].top10)}
SharedUrls(i, j) == Cardinality(CanonSet(i) \cap CanonSet(j))

\* the queries a chain of pairs sharing at least thr URLs leads to from those in S
RECURSIVE ChainClosure(_, _)
ChainClosure(S, thr) ==
    LET T == S \cup {j \in 1..NumQueries : \E i \in S : i # j /\ SharedUrls(i, j) >= thr}
    IN  IF T = S THEN S ELSE ChainClosure(T, thr)

Members(c) == Range(components[c])
SameCluster(i, j) == \E c \in 1..Len(components) : i \in Members(c) /\ j \in Members(c)

Occurrences(x, seq) == Cardinality({k \in 1..Len(seq) : seq[k] = x})
ListedQueries == Flatten([c \in 1..Len(clusters) |-> clusters[c].queries])

\* the members of component c whose average overlap no member exceeds
BestMembers(c) ==
    {m \in Members(c) : \A o \in Members(c) :
        avgGreaterOrEqual(avgOverlapOf(m, components[c], overlapMatrix),
                          avgOverlapOf(o, components[c], overlapMatrix))}
PositionIn(c, m) == CHOOSE k \in 1..Len(components[c]) : components[c][k] = m
FirstListed(c, S) == CHOOSE m \in S : \A o \in S : PositionIn(c, m) <= PositionIn(c, o)
LowestIndex(S) == CHOOSE m \in S : \A o \in S : m <= o

\* C1: two queries are in the same cluster iff a chain of queries links them
\* in which every consecutive pair shares at least `threshold` distinct
\* canonical URLs (the clusters are the connected components of the
\* threshold graph).  Cluster membership is read from the component each
\* cluster is built from.
C1_ClustersAreThresholdComponents ==
    Clustered =>
        \A i, j \in 1..NumQueries : SameCluster(i, j) <=> j \in ChainClosure({i}, threshold)

\* C2: partition: the clusters' query lists together hold every input query
\* exactly as often as the input does (none omitted, none listed twice).
C2_QueriesPartitioned ==
    pc = "done" =>
        /\ Len(ListedQueries) = NumQueries
        /\ \A i \in 1..NumQueries :
               Occurrences(InputQueries[i], ListedQueries) = Occurrences(InputQueries[i], InputQueries)

\* C3: the overlap matrix is symmetric, also when a top-10 list holds the
\* same canonical URL more than once.
C3_MatrixSymmetric ==
    Clustered => \A i, j \in 1..NumQueries : overlapMatrix[i][j] = overlapMatrix[j][i]

\* C4: off the diagonal, matrix[i][j] is the number of distinct canonical
\* URLs the two top-10 lists share; a URL repeated in one list counts once.
C4_MatrixIsSetIntersection ==
    Clustered => \A i, j \in 1..NumQueries : i # j => overlapMatrix[i][j] = SharedUrls(i, j)

\* C5: for every results list, empty or not, a threshold below 1 or above 10
\* makes the call fail with a clustering error and return no clusters; only
\* thresholds in 1..10 produce a cluster list.
C5_InvalidThresholdAlwaysFails ==
    /\ (pc # "start" /\ (threshold < MinThreshold \/ threshold > MaxThreshold))
           => (pc = "error" /\ thrown = "ClusteringError" /\ clusters = <<>>)
    /\ pc = "done" => threshold \in MinThreshold..MaxThreshold

\* C6: when targetQuery is the query of some input result, exactly one
\* cluster has id "target", it contains targetQuery (it is the first cluster
\* that does, should the input repeat the query), and every other cluster
\* has id cluster-<k>, k its 1-based position in the returned list (no
\* renumbering after the target).
C6_TargetIdAndPositions ==
    (Clustered /\ targetQuery # NoTarget /\ targetQuery \in Range(InputQueries)) =>
        /\ Cardinality({c \in 1..Len(clusters) : clusters[c].id = TargetId}) = 1
        /\ \A c \in 1..Len(clusters) :
               IF clusters[c].id = TargetId
               THEN /\ targetQuery \in Range(clusters[c].queries)
                    /\ \A d \in 1..(c - 1) : targetQuery \notin Range(clusters[d].queries)
               ELSE clusters[c].id = [prefix |-> "cluster-", n |-> c]

\* C6 witness: three clusters, the target second: cluster-1, target, cluster-3
C6_Witness ==
    /\ Clustered /\ targetQuery # NoTarget
    /\ Len(clusters) = 3
    /\ clusters[1].id = [prefix |-> "cluster-", n |-> 1]
    /\ clusters[2].id = TargetId
    /\ clusters[3].id = [prefix |-> "cluster-", n |-> 3]

\* C7: threshold monotonicity: for every higher threshold t2 <= 10 the
\* clustering at t2 refines the one at `threshold` (every cluster at t2 lies
\* inside one cluster at `threshold`), so it has at least as many clusters.
C7_ThresholdMonotone ==
    Clustered =>
        \A t2 \in (threshold + 1)..MaxThreshold :
            LET finer == allComponents(overlapMatrix, t2)
            IN  /\ \A f \in 1..Len(finer) : \E c \in 1..Len(components) : Range(finer[f]) \subseteq Members(c)
                /\ Len(finer) >= Len(components)

\* C7 witness: a higher threshold splits a cluster of the current clustering
C7_Witness ==
    /\ Clustered
    /\ \E t2 \in (threshold + 1)..MaxThreshold : Len(allComponents(overlapMatrix, t2)) > Len(components)

\* C8: for every component the exemplar is (the query of) a member whose
\* average overlap to the other members is maximal; for a singleton it is
\* the sole member.
C8_ExemplarIsBestMember ==
    Clustered =>
        \A c \in 1..Len(clusters) : clusters[c].exemplar \in {InputQueries[m] : m \in BestMembers(c)}

C10_TargetRanksReturned ==
    (pc = "done" /\ call # NoCall /\ call.targetPageOnPage1) =>
        /\ result.kind = "action"
        /\ result.type = "great_target_page_ranking"
        /\ result.q = call.query

\* the serpResult argument of the call, and the call's branch
SerpOfCall ==
    [targetPageOnPage1 |-> call.targetPageOnPage1,
     sameDomainOnPage1 |-> call.sameDomainOnPage1,
     firstMatch |-> call.firstMatch]
Classified == pc = "done" /\ call # NoCall
SameDomainBranch ==
    ~call.targetPageOnPage1 /\ call.sameDomainOnPage1 /\ call.firstMatch # NoMatch
SimilarityBranch ==
    ~call.targetPageOnPage1 /\ ~(call.sameDomainOnPage1 /\ call.firstMatch # NoMatch)
QueryClusterId == getClusterForQuery(call.query, call.clusters)
TargetQueryClusterId == getClusterForQuery(call.targetQuery, call.clusters)

ScoreObtained ==
    IF call.mockMode
    THEN (IF QueryClusterId = TargetId THEN MockSimilarityInTarget ELSE MockSimilarityElsewhere)
    ELSE call.similarity

\* C12: when neither branch 1 nor branch 2 applies, the call returns
\* ExpandTargetPage if the query's cluster id equals the target query's
\* cluster id (both queries being in a cluster) or the similarity score is
\* at least 0.75, and NewPage otherwise.
C12_ExpandIffSameClusterOrSimilar ==
    (Classified /\ SimilarityBranch) =>
        /\ result.kind = "action"
        /\ result.type =
               (IF (QueryClusterId # NullId /\ QueryClusterId = TargetQueryClusterId)
                   \/ ScoreObtained >= SimilarityCutoff
                THEN "expand_target_page" ELSE "new_page")

\* vocabulary of the batch
ActionPromiseIds ==
    {t \in (1..Len(actionPromises)) \X (1..(MaxBatch + 1)) : t[2] <= Len(actionPromises[t[1]])}
StatusOf(t) == actionPromises[t[1]][t[2]].status
SerpResultOf(query) == serpResults[findSerpResult(serpResults, query)]

\* C13: failure isolation: when the classification of one query has failed,
\* generateClusterRecommendations does not abort; it completes, and the list
\* it returns holds the action of every other query that got one.
C13_FailureIsolated ==
    \A t \in ActionPromiseIds :
        StatusOf(t) = "rejected" =>
            /\ pc # "rejected"
            /\ recommendations.delivered =>
                   \A o \in ActionPromiseIds \ {t} :
                       actionPromises[o[1]][o[2]].value.kind = "action" =>
                           actionPromises[o[1]][o[2]].value \in Range(recommendations.list[o[1]].actions)

\* C14: barrier: the recommendation list is returned only when no per-query
\* classification of the batch is pending any more (all have completed), and
\* it holds, cluster by cluster, the actions they completed with in the
\* order of the cluster's queries.
C14_ListOnlyAfterAllClassified ==
    recommendations.delivered =>
        /\ \A t \in ActionPromiseIds : StatusOf(t) # "pending"
        /\ Len(recommendations.list) = Len(clusters)
        /\ \A c \in 1..Len(clusters) :
               recommendations.list[c].actions =
                   SelectSeq([k \in 1..Len(actionPromises[c]) |-> actionPromises[c][k].value],
                             LAMBDA a : a.kind = "action")

\* C14 witness: a list returned for a batch of three classifications in two
\* or more clusters
C14_Witness ==
    /\ recommendations.delivered
    /\ Len(recommendations.list) >= 2
    /\ Cardinality(ActionPromiseIds) = 3
    /\ \E c \in 1..Len(recommendations.list) : recommendations.list[c].actions # <<>>

\* C16: in every returned ClusterRecommendation aiOverviewPresence has the
\* length of queries and its k-th entry is the aiOverview of the SERP result
\* of the k-th query, whatever the member order of the cluster.
C16_AiOverviewAligned ==
    recommendations.delivered =>
        \A c \in 1..Len(recommendations.list) :
            LET rec == recommendations.list[c]
            IN  /\ Len(rec.aiOverviewPresence) = Len(rec.queries)
                /\ \A k \in 1..Len(rec.queries) :
                       rec.aiOverviewPresence[k] = SerpResultOf(rec.queries[k]).aiOverview

\* the tokens of the two texts of a similarity call, and the number of pairs
\* of equal tokens between two token lists (the dot product of their
\* term-frequency vectors)
Tokens1 == tokenize(call.text1)
Tokens2 == tokenize(call.text2)
EqualPairs(a, b) == Cardinality({p \in (1..Len(a)) \X (1..Len(b)) : a[p[1]] = b[p[2]]})
EmbeddingFailed == call.embedding1 = "fails" \/ call.embedding2 = "fails"
FallbackCall == pc # "start" /\ call # NoCall /\ call.useFallback /\ EmbeddingFailed

\* branch 3 of the classifier for a query in no cluster, given the score
BranchThreeType(score) ==
    determineAction("q", [targetPageOnPage1 |-> FALSE, sameDomainOnPage1 |-> FALSE, firstMatch |-> NoMatch],
                    "tq", <<>>, FALSE, [suggestions |-> "resolves", similarity |-> score]).type

Recs == recommendations.list
Returned(fn) == pc = "done" /\ result.kind = fn
ActionKinds ==
    {"great_target_page_ranking", "ok_other_page_diff_cluster", "cannibalisation",
     "expand_target_page", "new_page"}
ActionsOf(r, type) == {k \in 1..Len(Recs[r].actions) : Recs[r].actions[k].type = type}
QueriesOf(r, type) ==
    LET matching == SelectSeq(Recs[r].actions, LAMBDA a : a.type = type)
    IN  [k \in 1..Len(matching) |-> matching[k].q]
\* the sum of the values of a function with a finite domain
RECURSIVE SumOf(_)
SumOf(f) ==
    IF DOMAIN f = {} THEN 0
    ELSE LET x == CHOOSE x \in DOMAIN f : TRUE
         IN  f[x] + SumOf([y \in DOMAIN f \ {x} |-> f[y]])
NumActions(type) == SumOf([r \in 1..Len(Recs) |-> Cardinality(ActionsOf(r, type))])
TotalActions == SumOf([r \in 1..Len(Recs) |-> Len(Recs[r].actions)])
NumEntries(v) ==
    SumOf([r \in 1..Len(Recs) |->
              Cardinality({k \in 1..Len(Recs[r].aiOverviewPresence) : Recs[r].aiOverviewPresence[k] = v})])
TotalEntries == SumOf([r \in 1..Len(Recs) |-> Len(Recs[r].aiOverviewPresence)])

\* C17: the summary has a count for each of the five action kinds, equal to
\* the number of actions of that kind over all recommendations (0 for a kind
\* that does not occur), and the five counts sum to the number of actions.
C17_SummaryCountsEveryKind ==
    Returned("getActionSummary") =>
        /\ \A type \in ActionKinds :
               /\ type \in DOMAIN result.value
               /\ result.value[type] = Num(NumActions(type))
        /\ SumOf([type \in ActionKinds |-> result.value[type].n]) = TotalActions

\* C18: present, absent and unknown count the entries of each value, they
\* sum to the number of aiOverviewPresence entries over all recommendations,
\* and percentagePresent is present / total * 100, exactly 0 when there is no
\* entry.
C18_AiOverviewStats ==
    Returned("getAIOverviewStats") =>
        LET stats == result.value
        IN  /\ stats.present = NumEntries("present")
            /\ stats.absent = NumEntries("absent")
            /\ stats.unknown = NumEntries("unknown")
            /\ stats.present + stats.absent + stats.unknown = TotalEntries
            /\ stats.percentagePresent.den > 0
            /\ IF TotalEntries = 0
               THEN stats.percentagePresent.num = 0
               ELSE stats.percentagePresent.num * TotalEntries
                        = stats.present * 100 * stats.percentagePresent.den

\* C18 witness: the recommendations of the test: 2 present, 2 absent,
\* 1 unknown give 40
C18_Witness ==
    /\ Returned("getAIOverviewStats")
    /\ result.value.present = 2 /\ result.value.absent = 2 /\ result.value.unknown = 1
    /\ result.value.percentagePresent.num = 40 * result.value.percentagePresent.den

\* the competing URLs of the Cannibalisation actions of recommendation r
CompetingUrls(r) == {Recs[r].actions[k].otherUrl : k \in ActionsOf(r, "cannibalisation")}
QueriesCompeting(r, url) ==
    LET matching == SelectSeq(Recs[r].actions, LAMBDA a : a.type = "cannibalisation" /\ a.otherUrl = url)
    IN  [k \in 1..Len(matching) |-> matching[k].q]

\* C19: the issues are exactly one per recommendation and distinct competing
\* URL of its Cannibalisation actions, with the queries of exactly the
\* actions that have that URL: every Cannibalisation action is covered by
\* exactly one issue, and a recommendation without such actions has none.
\* (The recommendations of a list have pairwise different cluster ids.)
C19_OneIssuePerCompetingUrl ==
    Returned("identifyCannibalizationIssues") =>
        LET issues == result.value
        IN  /\ \A r \in 1..Len(Recs) : \A url \in CompetingUrls(r) :
                   Cardinality({i \in 1..Len(issues) :
                                   /\ issues[i].clusterId = Recs[r].clusterId
                                   /\ issues[i].competingUrl = url
                                   /\ issues[i].queries = QueriesCompeting(r, url)}) = 1
            /\ Len(issues) = SumOf([r \in 1..Len(Recs) |-> Cardinality(CompetingUrls(r))])

PriorityRank(p) == IF p = "high" THEN 1 ELSE IF p = "medium" THEN 2 ELSE 3
EntriesOf(priority) == SelectSeq(result.value, LAMBDA e : e.priority = priority)

\* C20: the priorities are one high entry per cannibalization issue (in the
\* issues' order, with the issue's queries), one medium entry per
\* recommendation with at least 3 ExpandTargetPage actions and one low entry
\* per recommendation with at least 2 NewPage actions, each with that
\* recommendation's queries of the kind, none for a recommendation below the
\* count, and every high entry comes before every medium entry, which comes
\* before every low entry.
C20_PrioritiesByCount ==
    Returned("suggestContentPriorities") =>
        LET issues == identifyCannibalizationIssues(Recs)
            high == EntriesOf("high")
            medium == EntriesOf("medium")
            low == EntriesOf("low")
            expanding == {r \in 1..Len(Recs) : Cardinality(ActionsOf(r, "expand_target_page")) >= 3}
            creating == {r \in 1..Len(Recs) : Cardinality(ActionsOf(r, "new_page")) >= 2}
        IN  /\ Len(result.value) = Len(high) + Len(medium) + Len(low)
            /\ \A i, j \in 1..Len(result.value) :
                   i < j => PriorityRank(result.value[i].priority) <= PriorityRank(result.value[j].priority)
            /\ Len(high) = Len(issues)
            /\ \A i \in 1..Len(high) :
                   /\ high[i].queries = issues[i].queries
                   /\ high[i].rationale.clusterId = issues[i].clusterId
                   /\ high[i].rationale.competingUrl = issues[i].competingUrl
            /\ Len(medium) = Cardinality(expanding)
            /\ \A r \in expanding :
                   Cardinality({i \in 1..Len(medium) :
                                   /\ medium[i].rationale.clusterId = Recs[r].clusterId
                                   /\ medium[i].queries = QueriesOf(r, "expand_target_page")}) = 1
            /\ Len(low) = Cardinality(creating)
            /\ \A r \in creating :
                   Cardinality({i \in 1..Len(low) :
                                   /\ low[i].rationale.clusterId = Recs[r].clusterId
                                   /\ low[i].queries = QueriesOf(r, "new_page")}) = 1

\* C20 witness: entries of all three priorities, one recommendation with
\* exactly 3 ExpandTargetPage actions and one with fewer, which gets no
\* medium entry
C20_Witness ==
    /\ Returned("suggestContentPriorities")
    /\ EntriesOf("high") # <<>> /\ Len(EntriesOf("medium")) = 1 /\ EntriesOf("low") # <<>>
    /\ \E r \in 1..Len(Recs) : Cardinality(ActionsOf(r, "expand_target_page")) = 3
    /\ \E r \in 1..Len(Recs) : Cardinality(ActionsOf(r, "expand_target_page")) \in 1..2

\* vocabulary of the near-duplicate filter: is the cosine of two texts above
\* thr hundredths?  (the dot product and the norms counted as pairs of equal
\* tokens; a text without tokens has cosine 0 to everything)
TooSimilar(text1, text2, thr) ==
    LET a == tokenize(text1)
        b == tokenize(text2)
    IN  IF a = <<>> \/ b = <<>> THEN 0 > thr
        ELSE 10000 * EqualPairs(a, b) * EqualPairs(a, b) > thr * thr * EqualPairs(a, a) * EqualPairs(b, b)
Filtered == pc = "done" /\ result.kind = "filterNearDuplicates"
\* the positions of the input that a set P of positions lists, in order
RECURSIVE Ascending(_)
Ascending(P) ==
    IF P = {} THEN <<>>
    ELSE LET m == CHOOSE m \in P : \A o \in P : m <= o IN <<m>> \o Ascending(P \ {m})
RECURSIVE KeptPositions(_, _)
KeptPositions(i, before) ==
    IF i > Len(call.queries) THEN before
    ELSE KeptPositions(i + 1,
            IF \A k \in before : ~TooSimilar(call.queries[i].q, call.queries[k].q, call.threshold)
            THEN before \cup {i} ELSE before)

C22_FilterIdempotent ==
    Filtered => filterNearDuplicates(result.value, call.threshold) = result.value

\* C22 witness: a result of two candidates, a candidate between them having
\* been dropped, that filtering again leaves unchanged
C22_Witness ==
    /\ Filtered
    /\ Len(call.queries) = 3 /\ Len(result.value) = 2
    /\ result.value[2] = call.queries[3]
    /\ ~TooSimilar(call.queries[3].q, call.queries[2].q, call.threshold)
    /\ filterNearDuplicates(result.value, call.threshold) = result.value

\* C23: cosineSimilarity(s, s) is 1 for every non-empty string s, and
\* cosineSimilarity("", "") is 0.  (The fallback of computeSemanticSimilarity
\* returns cosineSimilarity of its two texts.)
C23_SelfSimilarityIsOne ==
    (FallbackCall /\ call.text1 = call.text2) =>
        result.value = (IF call.text1 = <<>> THEN 0 ELSE 100)

\* a string `new URL` rejects: it does not start with a scheme
Malformed(url) == url = <<>> \/ url[1] # Scheme
UrlsOf(i) == Range(serpResults[i].top10)

\* C24: a malformed URL never aborts clustering: its canonical form is the
\* string itself, clusterBySerpSimilarity completes without an error and
\* with a full matrix, and the string counts in the overlaps like any
\* canonical form: an entry off the diagonal is the number of canonical
\* forms, raw strings included, that the two lists share (no list of these
\* inputs repeats a canonical form).
C24_MalformedUrlKeptAsIs ==
    (pc # "start" /\ serpResults # <<>>) =>
        /\ \A i \in 1..NumQueries : \A url \in UrlsOf(i) :
               Malformed(url) => canonicalizeForSerpComparison(url) = url
        /\ pc = "done" /\ thrown = ""
        /\ Len(overlapMatrix) = NumQueries
        /\ \A i, j \in 1..NumQueries :
               /\ Len(overlapMatrix[i]) = NumQueries
               /\ i # j => overlapMatrix[i][j] =
                      Cardinality({IF Malformed(u) THEN u ELSE canonicalizeForSerpComparison(u) : u \in UrlsOf(i)}
                                  \cap {IF Malformed(u) THEN u ELSE canonicalizeForSerpComparison(u) : u \in UrlsOf(j)})
        /\ ListedQueries = Flatten([c \in 1..Len(components) |-> [k \in 1..Len(components[c]) |-> InputQueries[components[c][k]]]])

\* C24 witness: two results clustered together because they share the
\* string that is no URL, and one whose scheme-less URL equals the
\* canonical form of another's URL
C24_Witness ==
    /\ pc = "done" /\ NumQueries = 3
    /\ \E i, j, k \in 1..NumQueries :
           /\ i # j /\ UrlJunk \in UrlsOf(i) /\ UrlJunk \in UrlsOf(j)
           /\ overlapMatrix[i][j] = 1 /\ SameCluster(i, j)
           /\ UrlBare \in UrlsOf(k) /\ UrlB \in UrlsOf(j) /\ overlapMatrix[k][j] = 1

\* what the classification of the k-th query of cluster c yields, from the
\* arguments of the batch alone
OutcomeOf(c, k) == actionOf(clusters[c].queries[k], serpResults, targetQuery, clusters, call)
ExpectedActions(c) ==
    SelectSeq([k \in 1..Len(clusters[c].queries) |-> OutcomeOf(c, k)], LAMBDA a : a.kind = "action")
SomeOutcomeRejects ==
    \E c \in 1..Len(clusters) : \E k \in 1..Len(clusters[c].queries) : OutcomeOf(c, k).kind = "rejects"

\* C25: the classification tasks are independent: in every interleaving a
\* settled task holds what its own query yields from the arguments of the
\* batch, whatever settled before it; a returned list has one recommendation
\* per cluster, in cluster order, whose actions are the non-null results in
\* the order of cluster.queries; and whether a list is returned at all is
\* decided by the arguments, not by the completion order.
C25_ResultIndependentOfOrder ==
    /\ \A t \in ActionPromiseIds :
           /\ StatusOf(t) = "fulfilled" => actionPromises[t[1]][t[2]].value = OutcomeOf(t[1], t[2])
           /\ StatusOf(t) = "rejected" => OutcomeOf(t[1], t[2]).kind = "rejects"
    /\ recommendations.delivered =>
           /\ Len(recommendations.list) = Len(clusters)
           /\ \A c \in 1..Len(clusters) :
                  /\ recommendations.list[c].clusterId = clusters[c].id
                  /\ recommendations.list[c].exemplar = clusters[c].exemplar
                  /\ recommendations.list[c].queries = clusters[c].queries
                  /\ recommendations.list[c].actions = ExpectedActions(c)
    /\ pc = "resolved" => (recommendations.delivered /\ ~SomeOutcomeRejects)
    /\ pc = "rejected" => (~recommendations.delivered /\ SomeOutcomeRejects)

\* C25 witness: a list of two or more recommendations, one of them with the
\* actions of two queries
C25_Witness ==
    /\ recommendations.delivered
    /\ Len(recommendations.list) >= 2
    /\ \E c \in 1..Len(recommendations.list) :
           /\ Len(recommendations.list[c].actions) = 2
           /\ recommendations.list[c].actions[1].q = clusters[c].queries[1]
           /\ recommendations.list[c].actions[1] # recommendations.list[c].actions[2]

\* vocabulary of fetchSerpResult
FetchEnded == pc \in {"done", "error"}
Failed(response) == response \in {"429", "500", "503"}
FetchWithinBounds ==
    /\ call.requests = Len(call.responses)
    /\ call.requests <= 5
    /\ Len(call.backoffs) <= 4
    /\ \A k \in 1..Len(call.backoffs) :
           /\ call.backoffs[k] = 2000 * 2^(k - 1)
           /\ Failed(call.responses[k])
    /\ \A k \in 1..(call.requests - 1) : Failed(call.responses[k])
    /\ (FetchEnded /\ call.requests = 5 /\ call.responses[5] = "429") =>
           (pc = "error" /\ thrown = "RateLimitError")
    /\ (FetchEnded /\ call.requests = 5 /\ call.responses[5] \in {"500", "503"}) =>
           (pc = "error" /\ thrown = "DataForSEOAPIError")
    /\ (FetchEnded /\ call.requests < 5) => ~Failed(call.responses[call.requests])

\* C26: under any sequence of responses fetchSerpResult issues at most 5
\* requests for one query (at most 4 retries, 429 and 5xx counted together),
\* each retry k+1 coming after a wait of 2000*2^k ms and only after a 429 or
\* 5xx; when the 5th request fails too the call stops with RateLimitError
\* (429) or DataForSEOAPIError (5xx); and the call always ends.
C26_AtMostFourRetries == []FetchWithinBounds /\ <>FetchEnded

\* C26 witness: five requests, 429 and 5xx mixed, the last one a 429: four
\* backoffs of 2, 4, 8 and 16 seconds and a RateLimitError
C26_Witness ==
    /\ pc = "error" /\ thrown = "RateLimitError"
    /\ call.requests = 5
    /\ call.responses = <<"429", "500", "429", "503", "429">>
    /\ call.backoffs = <<2000, 4000, 8000, 16000>>

\* vocabulary of the fixed order: the depth-first order from a seed over the
\* pairs at or above the threshold, neighbours tried in ascending index
\* order, and the components seeded in ascending index order
Adjacent(i, j) ==
    /\ i # j
    /\ overlapMatrix[IF i < j THEN i ELSE j][IF i < j THEN j ELSE i] >= threshold
RECURSIVE Visit(_, _)
RECURSIVE VisitNeighbours(_, _, _)
Visit(node, order) == VisitNeighbours(node, 1, Append(order, node))
VisitNeighbours(node, j, order) ==
    IF j > NumQueries THEN order
    ELSE VisitNeighbours(node, j + 1,
                         IF Adjacent(node, j) /\ j \notin Range(order) THEN Visit(j, order) ELSE order)
RECURSIVE SeededFrom(_, _)
SeededFrom(i, comps) ==
    IF i > NumQueries THEN comps
    ELSE SeededFrom(i + 1,
                    IF \E c \in 1..Len(comps) : i \in Range(comps[c]) THEN comps
                    ELSE Append(comps, Visit(i, <<>>)))
DepthFirstComponents == SeededFrom(1, <<>>)
ComponentsInFixedOrder == Clustered => components = DepthFirstComponents

\* C27: the clusters come in ascending order of their smallest member's
\* input index, and each cluster lists its members' queries in depth-first
\* discovery order from that smallest member, neighbours tried in ascending
\* index order (so that the returned list is a function of the input alone).
C27_ClustersInFixedOrder ==
    Clustered =>
        /\ Len(clusters) = Len(DepthFirstComponents)
        /\ \A c \in 1..Len(clusters) :
               clusters[c].queries =
                   [k \in 1..Len(DepthFirstComponents[c]) |-> InputQueries[DepthFirstComponents[c][k]]]

\* vocabulary of fetchBatchSerpResults: the positions whose fetch succeeded,
\* in ascending order, and those whose fetch failed
RECURSIVE PositionsIn(_, _)
PositionsIn(S, n) ==
    IF n = 0 THEN <<>>
    ELSE IF n \in S THEN Append(PositionsIn(S, n - 1), n) ELSE PositionsIn(S, n - 1)
SucceededPositions == PositionsIn(call.succeeded, Len(call.queries))
FailedPositions == PositionsIn((1..Len(call.queries)) \ call.succeeded, Len(call.queries))
BatchReturned == pc = "done" /\ result.kind = "fetchBatchSerpResults"

\* C28: fetchBatchSerpResults never rejects, and what it resolves with puts
\* every input query in exactly one of the two lists: results holds the
\* results of the queries whose fetch succeeded, in input order, errors
\* holds the queries whose fetch failed, and the two lengths add up to the
\* number of queries; never are more than `concurrency` fetches in flight.
C28_EveryQueryInResultsOrErrors ==
    /\ pc # "error"
    /\ Cardinality({k \in 1..Len(actionPromises) : actionPromises[k] = Pending}) <= call.concurrency
    /\ BatchReturned =>
           /\ result.results = [k \in 1..Len(SucceededPositions) |->
                                   [q |-> call.queries[SucceededPositions[k]]]]
           /\ result.errors = [k \in 1..Len(FailedPositions) |->
                                  [query |-> call.queries[FailedPositions[k]]]]
           /\ Len(result.results) + Len(result.errors) = Len(call.queries)

\* C29: for any input, every returned cluster's exemplar is one of the
\* queries the cluster lists, and the cluster's overlapMatrix is square with
\* one row per listed query.
C29_ExemplarListedAndMatrixSquare ==
    Clustered =>
        \A c \in 1..Len(clusters) :
            /\ clusters[c].exemplar \in Range(clusters[c].queries)
            /\ Len(clusters[c].overlapMatrix) = Len(clusters[c].queries)
            /\ \A a \in 1..Len(clusters[c].overlapMatrix) :
                   Len(clusters[c].overlapMatrix[a]) = Len(clusters[c].queries)

\* C30: determineAction reports Cannibalisation only when
\* areInSameCluster(query, targetQuery, clusters) holds: the query and the
\* target query both resolve to a cluster id, and to the same one.  When
\* either is in no cluster no Cannibalisation is reported.
C30_CannibalisationOnlyInSameCluster ==
    (Classified /\ result.kind = "action" /\ result.type = "cannibalisation") =>
        areInSameCluster(call.query, call.targetQuery, call.clusters)

====
